---- MODULE Spec2Model ----
(***************************************************************************)
(* Card Battle RPG (src/game.py): the battle state machine.                *)
(*                                                                         *)
(* The model follows battle() and auto_battle() statement by statement.    *)
(* One battle is one behaviour: Init is the state right after the two      *)
(* opening draws (game.py:311 / 449), every action is one stretch of the   *)
(* loop body, and pc names the position in the function.                   *)
(*                                                                         *)
(* Sections 8 to 11 add specifications of single operations (kaioken and   *)
(* cancel_kaioken, the transformation stack, one round for a saved hero,   *)
(* Deck.draw, gain_exp, play_card): they start from ranges of characters,  *)
(* decks and cards and apply the same operators as the battle loop.        *)
(*                                                                         *)
(* Arithmetic: Python's int(x * f) on the non-negative values used here is *)
(* floor(x * f); every float factor of the source is written as an exact   *)
(* fraction (1.05 = 105/100, 0.3 = 3/10, 8.72 = 872/100, ...).             *)
(***************************************************************************)
EXTENDS Integers, Sequences, FiniteSets, TLC

----------------------------------------------------------------------------
(* Bounds of the model (not program constants)                             *)

\* number of deck orders random.shuffle may produce in the model
MaxSeed == 1
\* largest integer a human may type at a numeric prompt
MaxInput == 1
\* largest Kaioken multiplier a creature file configures
MaxMultCfg == 1
\* rounds of one battle that are explored
MaxRounds == 3
\* the human plays one of the first MaxPick cards of the hand
MaxPick == 1
\* largest power_level of the characters the single operations are tried on
MaxPower == 40
\* number of calls made in a row on one character
MaxOps == 5
\* highest level of a character that is given experience
MaxLevel == 3

----------------------------------------------------------------------------
(* 1. Cards                                                                *)

Symbol == <<"STAR", "CIRCLE", "TRIANGLE">>

HandSize == 5
DeckCopies == 3
MaxNumber == 7
DeckSize == DeckCopies * MaxNumber * Len(Symbol)

Card(n, sym) == [number |-> n, symbol |-> sym]

\* Card.atk_mul and Card.def_mul, times 10
atk_mul(card) ==
    CASE card.symbol = "STAR" -> 14
      [] card.symbol = "CIRCLE" -> 10
      [] card.symbol = "TRIANGLE" -> 6

def_mul(card) ==
    CASE card.symbol = "STAR" -> 6
      [] card.symbol = "CIRCLE" -> 10
      [] card.symbol = "TRIANGLE" -> 14

\* Deck._build before the shuffle: 3 x (1..7) x Symbol, in loop order
BuildOrder ==
    [i \in 1..DeckSize |->
        Card((((i - 1) \div Len(Symbol)) % MaxNumber) + 1,
             Symbol[((i - 1) % Len(Symbol)) + 1])]

\* random.shuffle: one of MaxSeed permutations of the built deck
Shuffle(cards, seed) ==
    [i \in 1..Len(cards) |->
        cards[(((i - 1) * (3 * seed - 1) + seed) % Len(cards)) + 1]]

_build(seed) == Shuffle(BuildOrder, seed)

\* variant: the rebuild does not discard the cards that remain
draw_KeepRest(cards, n, seed) ==
    LET src == IF Len(cards) < n THEN cards \o _build(seed) ELSE cards
    IN  <<SubSeq(src, 1, n), SubSeq(src, n + 1, Len(src))>>

\* Deck.draw(n): <<hand, remaining deck>>
draw(cards, n, seed) ==
    LET src == IF Len(cards) < n THEN _build(seed) ELSE cards
    IN  <<SubSeq(src, 1, n), SubSeq(src, n + 1, Len(src))>>

----------------------------------------------------------------------------
(* 2. Characters                                                           *)

NoThreshold == -1

KiCost(name) ==
    CASE name = "Onda de Ki" -> 40
      [] name = "Cura" -> 30
      [] name = "Kaioken" -> 0

Max(a, b) == IF a > b THEN a ELSE b
Min(a, b) == IF a < b THEN a ELSE b

\* Character.__init__ / __post_init__
Character(lvl, pl, mhp, mki, abis, pack, xp, cfgMult, costUnit) ==
    [level |-> lvl, power_level |-> pl, max_hp |-> mhp, max_ki |-> mki,
     abilities |-> abis, backpack |-> pack,
     kaioken_on |-> FALSE, kaioken_mult |-> 0, kaioken_pl0 |-> 0,
     kaioken_cost_unit |-> costUnit, kaioken_mult_cfg |-> cfgMult,
     form_name |-> "Base", form_stack |-> <<>>,
     terminated_at |-> NoThreshold,
     hp |-> mhp, ki |-> mki, exp |-> xp, is_player |-> FALSE]

is_alive(c) == c.hp > 0

\* variant: the hit is subtracted without the floor at 0
take_damage_NoFloor(c, dmg) == [c EXCEPT !.hp = c.hp - dmg]

take_damage(c, dmg) == [c EXCEPT !.hp = Max(0, c.hp - dmg)]

\* variant: the two cards are taken the wrong way round
CardDamage_Swapped(card, def_card, apl, dpl) ==
    LET diff100 == atk_mul(def_card) * (10 + def_card.number)
                   - def_mul(card) * (10 + card.number)
    IN  ((31250 + 109 * diff100) * apl) \div (1250 * Max(1, dpl))

\* damage of Character.play_card: int((25 + (atk - def) * 8.72) * ratio)
CardDamage(card, def_card, apl, dpl) ==
    LET diff100 == atk_mul(card) * (10 + card.number)
                   - def_mul(def_card) * (10 + def_card.number)
    IN  ((31250 + 109 * diff100) * apl) \div (1250 * Max(1, dpl))

\* Character.play_card: the target after the hit
play_card(self, card, target, def_card) ==
    take_damage(target,
                CardDamage(card, def_card, self.power_level, target.power_level))

\* ki_wave: the defender after the hit, int(42.44 * ratio)
ki_wave(attacker, defender) ==
    take_damage(defender,
        (4244 * attacker.power_level) \div (100 * Max(1, defender.power_level)))

\* heal: the attacker afterwards
heal(attacker) ==
    [attacker EXCEPT !.hp = Min(attacker.max_hp,
                                attacker.hp + (attacker.max_hp * 3) \div 10)]

\* what a prompt returns when the text typed is not an integer (ValueError)
NonNumeric == -99

\* list[i] in Python, as a 1-based position; 0 stands for IndexError
PyIndex(len, i) ==
    IF i >= 0 /\ i < len THEN i + 1
    ELSE IF i < 0 /\ i >= -len THEN len + i + 1
    ELSE 0

RemoveAt(s, k) == SubSeq(s, 1, k - 1) \o SubSeq(s, k + 1, Len(s))

\* kaioken(attacker, _): input is what the human types at "Multiplo do Kaioken"
kaioken(attacker, input) ==
    IF attacker.kaioken_on THEN attacker
    ELSE IF attacker.is_player /\ (input = NonNumeric \/ input <= 0) THEN attacker
    ELSE LET mult == IF attacker.is_player THEN input
                     ELSE attacker.kaioken_mult_cfg
             cost == attacker.kaioken_cost_unit * mult
         IN  IF attacker.ki < cost THEN attacker
             ELSE [attacker EXCEPT
                     !.ki = attacker.ki - cost,
                     !.kaioken_on = TRUE,
                     !.kaioken_mult = mult,
                     !.kaioken_pl0 = attacker.power_level,
                     !.power_level = (attacker.power_level * (2 + mult)) \div 2]

\* variant: the boost is undone by dividing the multiplier out again
cancel_kaioken_Rescale(char) ==
    IF char.kaioken_on
    THEN [char EXCEPT !.power_level =
                        (char.power_level * 2) \div (2 + char.kaioken_mult),
                      !.kaioken_on = FALSE,
                      !.kaioken_mult = 0,
                      !.kaioken_pl0 = 0]
    ELSE char

cancel_kaioken(char) ==
    IF char.kaioken_on
    THEN [char EXCEPT !.power_level = char.kaioken_pl0,
                      !.kaioken_on = FALSE,
                      !.kaioken_mult = 0,
                      !.kaioken_pl0 = 0]
    ELSE char

process_kaioken(char) ==
    IF ~char.kaioken_on THEN char
    ELSE IF char.kaioken_mult <= 0 THEN [char EXCEPT !.kaioken_on = FALSE]
    ELSE LET cost == char.kaioken_cost_unit * char.kaioken_mult
         IN  IF char.ki >= cost
             THEN [char EXCEPT !.ki = char.ki - cost]
             ELSE [char EXCEPT !.power_level = char.kaioken_pl0,
                               !.kaioken_on = FALSE]

----------------------------------------------------------------------------
(* 3. Transformations                                                      *)

\* multipliers of the configuration are written in halves (3 is 1.5)
MulDen == 2

\* HERO_CFG["transformations"]; required = "" is a missing "required" key,
\* terminated_at is a percentage of max_hp
Transformations ==
    << [name |-> "SSJ", required |-> "", level_enabled |-> 1,
        multipliers |-> [power_level |-> 4, hp |-> 3, ki |-> 2],
        terminated_at |-> 50],
       [name |-> "SSJ2", required |-> "SSJ", level_enabled |-> 1,
        multipliers |-> [power_level |-> 3, hp |-> 2, ki |-> 1],
        terminated_at |-> NoThreshold],
       [name |-> "SSJ3", required |-> "SSJ2", level_enabled |-> 2,
        multipliers |-> [power_level |-> 3, hp |-> 2, ki |-> 2],
        terminated_at |-> 60] >>

\* HERO_CFG["learn"], in the order of the configuration
Learn ==
    << [skill |-> "Kaioken", level |-> 1],
       [skill |-> "Cura", level |-> 2],
       [skill |-> "Onda de Ki", level |-> 3] >>

\* variant: the level of the character is not looked at
CanPick_AnyLevel(char, t) ==
    /\ t.name # char.form_name
    /\ IF t.required = ""
       THEN char.form_name = "Base" /\ char.form_stack = <<>>
       ELSE char.form_name = t.required

CanPick(char, t) ==
    /\ char.level >= t.level_enabled
    /\ t.name # char.form_name
    /\ IF t.required = ""
       THEN char.form_name = "Base" /\ char.form_stack = <<>>
       ELSE char.form_name = t.required

can_transform(char) == SelectSeq(Transformations, LAMBDA t : CanPick(char, t))

Snapshot(char) ==
    [name |-> char.form_name, power_level |-> char.power_level,
     max_hp |-> char.max_hp, max_ki |-> char.max_ki,
     hp |-> char.hp, ki |-> char.ki]

\* variant: the snapshot is taken before the boost is cancelled
apply_transformation_SnapFirst(char, trans) ==
    LET c == cancel_kaioken(char)
        mul == trans.multipliers
        new_hp == (c.max_hp * mul.hp) \div MulDen
        new_ki == (c.max_ki * mul.ki) \div MulDen
    IN  [c EXCEPT
           !.form_stack = Append(c.form_stack, Snapshot(char)),
           !.power_level = (c.power_level * mul.power_level) \div MulDen,
           !.max_hp = new_hp,
           !.max_ki = new_ki,
           !.hp = Min((c.hp * mul.hp) \div MulDen, new_hp),
           !.ki = Min((c.ki * mul.ki) \div MulDen, new_ki),
           !.form_name = trans.name,
           !.terminated_at = trans.terminated_at]

apply_transformation(char, trans) ==
    LET c == cancel_kaioken(char)
        mul == trans.multipliers
        new_hp == (c.max_hp * mul.hp) \div MulDen
        new_ki == (c.max_ki * mul.ki) \div MulDen
    IN  [c EXCEPT
           !.form_stack = Append(c.form_stack, Snapshot(c)),
           !.power_level = (c.power_level * mul.power_level) \div MulDen,
           !.max_hp = new_hp,
           !.max_ki = new_ki,
           !.hp = Min((c.hp * mul.hp) \div MulDen, new_hp),
           !.ki = Min((c.ki * mul.ki) \div MulDen, new_ki),
           !.form_name = trans.name,
           !.terminated_at = trans.terminated_at]

\* variant: the restore leaves the name of the form
PopForm_KeepName(char) ==
    LET last == char.form_stack[Len(char.form_stack)]
    IN  [char EXCEPT
           !.form_stack = SubSeq(char.form_stack, 1, Len(char.form_stack) - 1),
           !.power_level = last.power_level,
           !.max_hp = last.max_hp,
           !.max_ki = last.max_ki,
           !.hp = Min(char.hp, last.max_hp),
           !.ki = Min(char.ki, last.max_ki)]

\* variant: the restore leaves hp and ki unclamped
PopForm_NoClamp(char) ==
    LET last == char.form_stack[Len(char.form_stack)]
    IN  [char EXCEPT
           !.form_stack = SubSeq(char.form_stack, 1, Len(char.form_stack) - 1),
           !.form_name = last.name,
           !.power_level = last.power_level,
           !.max_hp = last.max_hp,
           !.max_ki = last.max_ki]

\* the pop-and-restore block shared by revert_form, check_revert and the
\* end of battle(): char.form_stack is not empty
PopForm(char) ==
    LET last == char.form_stack[Len(char.form_stack)]
    IN  [char EXCEPT
           !.form_stack = SubSeq(char.form_stack, 1, Len(char.form_stack) - 1),
           !.form_name = last.name,
           !.power_level = last.power_level,
           !.max_hp = last.max_hp,
           !.max_ki = last.max_ki,
           !.hp = Min(char.hp, last.max_hp),
           !.ki = Min(char.ki, last.max_ki)]

\* variant: the revert leaves the threshold of the form it has left
revert_form_KeepThreshold(char) ==
    IF char.form_stack = <<>> THEN char
    ELSE PopForm(cancel_kaioken(char))

revert_form(char) ==
    IF char.form_stack = <<>> THEN char
    ELSE [PopForm(cancel_kaioken(char)) EXCEPT !.terminated_at = NoThreshold]

\* variant: the threshold survives the pop
check_revert_KeepThreshold(char) ==
    IF char.terminated_at = NoThreshold THEN char
    ELSE IF char.hp * 100 <= char.terminated_at * char.max_hp
              /\ char.form_stack # <<>>
         THEN PopForm(cancel_kaioken(char))
         ELSE char

\* check_revert; list.pop() on an empty form_stack raises IndexError, which
\* cannot happen while terminated_at is only set after a push
check_revert(char) ==
    IF char.terminated_at = NoThreshold THEN char
    ELSE IF char.hp * 100 <= char.terminated_at * char.max_hp
              /\ char.form_stack # <<>>
         THEN [PopForm(cancel_kaioken(char)) EXCEPT !.terminated_at = NoThreshold]
         ELSE char

----------------------------------------------------------------------------
(* 4. Progression and items                                                *)

\* outcomes of random.uniform(1.15, 1.20) in level_up, in per cent
LevelFactors == {116, 120}
\* outcomes of random.randint(40, 60) for the experience reward
ExpBases == {40, 60}

RECURSIVE LearnFrom(_, _)
LearnFrom(abis, k) ==
    IF k > Len(Learn) THEN <<>>
    ELSE (IF abis.level >= Learn[k].level
             /\ \A j \in 1..Len(abis.known) : abis.known[j] # Learn[k].skill
          THEN <<Learn[k].skill>> ELSE <<>>) \o LearnFrom(abis, k + 1)

maybe_learn_skills(char) ==
    [char EXCEPT !.abilities =
        char.abilities \o LearnFrom([level |-> char.level,
                                     known |-> char.abilities], 1)]

\* Character.level_up; factor is the draw of random.uniform, in per cent
level_up(char, factor) ==
    LET mhp == (char.max_hp * 105) \div 100
        mki == (char.max_ki * 105) \div 100
    IN  maybe_learn_skills(
          [char EXCEPT !.level = char.level + 1,
                       !.power_level = (char.power_level * factor) \div 100,
                       !.max_hp = mhp, !.max_ki = mki,
                       !.hp = mhp, !.ki = mki])

\* variant: `if` in place of `while`
LevelLoop_Once(char, factors, k) ==
    IF char.exp >= 100 * char.level
    THEN level_up([char EXCEPT !.exp = char.exp - 100 * char.level],
                  factors[(k % Len(factors)) + 1])
    ELSE char

RECURSIVE LevelLoop(_, _, _)
LevelLoop(char, factors, k) ==
    IF char.exp >= 100 * char.level
    THEN LevelLoop(level_up([char EXCEPT !.exp = char.exp - 100 * char.level],
                            factors[(k % Len(factors)) + 1]),
                   factors, k + 1)
    ELSE char

\* Character.gain_exp; factors are the draws of level_up, taken in turn
gain_exp(char, amount, factors) ==
    LevelLoop([char EXCEPT !.exp = char.exp + amount], factors, 0)

apply_item(char, item) ==
    CASE item = "Elixir de Poder" ->
           [char EXCEPT !.power_level = (char.power_level * 110) \div 100]
      [] item = "Pocao de Cura" ->
           [char EXCEPT !.hp = Min(char.max_hp, char.hp + char.max_hp \div 2)]
      [] OTHER -> char

\* use_item_menu; input is what is typed at "Usar item no"
use_item_menu(char, input) ==
    IF char.backpack = <<>> \/ input = NonNumeric THEN char
    ELSE LET k == PyIndex(Len(char.backpack), input - 1)
         IN  IF k = 0 THEN char
             ELSE apply_item([char EXCEPT !.backpack = RemoveAt(char.backpack, k)],
                             char.backpack[k])

\* drop_item; r is the band random.random() falls in
drop_item(hero, r) ==
    CASE r = "rare" -> [hero EXCEPT !.backpack = Append(@, "Elixir de Poder")]
      [] r = "common" -> [hero EXCEPT !.backpack = Append(@, "Pocao de Cura")]
      [] OTHER -> hero

\* pick_ability; "" stands for None
pick_ability(char, input) ==
    IF char.abilities = <<>> \/ input = NonNumeric \/ input = 0 THEN ""
    ELSE LET k == PyIndex(Len(char.abilities), input - 1)
         IN  IF k = 0 THEN "" ELSE char.abilities[k]

\* ability.effect(actor, target): <<actor, target>> afterwards
Effect(name, actor, target, input) ==
    CASE name = "Onda de Ki" -> <<actor, ki_wave(actor, target)>>
      [] name = "Cura" -> <<heal(actor), target>>
      [] name = "Kaioken" -> <<kaioken(actor, input), target>>

----------------------------------------------------------------------------
(* 5. Players                                                              *)

Digits == <<"1", "2", "3", "4", "5">>

\* int(choice) when choice.isdigit(), else 0
DigitOf(choice) ==
    IF \E i \in 1..Len(Digits) : Digits[i] = choice
    THEN CHOOSE i \in 1..Len(Digits) : Digits[i] = choice
    ELSE 0

\* choice_to_card; <<>> stands for None
choice_to_card(choice, hand) ==
    IF DigitOf(choice) >= 1 /\ DigitOf(choice) <= Len(hand)
    THEN <<hand[DigitOf(choice)]>>
    ELSE <<>>

Has(seq, x) == \E i \in 1..Len(seq) : seq[i] = x

\* max(range(len(hand)), key=atk_mul*number): the first best card
BestCard(hand) ==
    CHOOSE i \in 1..Len(hand) :
        /\ \A j \in 1..Len(hand) :
             atk_mul(hand[j]) * hand[j].number <= atk_mul(hand[i]) * hand[i].number
        /\ \A j \in 1..(i - 1) :
             atk_mul(hand[j]) * hand[j].number < atk_mul(hand[i]) * hand[i].number

\* AIPlayer.choose: the answers it can give (random.random() < 0.4 or not)
AIChoices(char, hand) ==
    {Digits[BestCard(hand)]} \cup
    (IF /\ Has(char.abilities, "Kaioken")
        /\ ~char.kaioken_on
        /\ char.ki >= char.kaioken_cost_unit * char.kaioken_mult_cfg
     THEN {"a"} ELSE {})

\* list.remove(card) when card in hand: drops the first equal card
RemoveCard(hand, card) ==
    IF card = <<>> \/ ~Has(hand, card[1]) THEN hand
    ELSE RemoveAt(hand, CHOOSE i \in 1..Len(hand) :
                          /\ hand[i] = card[1]
                          /\ \A j \in 1..(i - 1) : hand[j] # card[1])

\* the abilities a side can pay for
Usable(char) ==
    {i \in 1..Len(char.abilities) : char.ki >= KiCost(char.abilities[i])}

----------------------------------------------------------------------------
(* 6. The battle loop                                                      *)

VARIABLES
    mode,       \* "battle" (battle()) or "auto" (auto_battle())
    pc,         \* position in the function
    chars,      \* "p": player.char / c1, "e": enemy.char / c2
    deck,       \* Deck.cards
    p_hand, e_hand,
    p_card, e_card, e_choice,   \* locals of the round, live from the
                                \* decision to the hand management
    rnd,        \* the round counter
    acted,      \* who has resolved an action in the current round
    result,     \* return value of battle(): "none", "true", "false"
    atStart,    \* chars when the function was entered
    atRound,    \* chars at the head of the current loop iteration
    atExit,     \* chars when the loop was left
    call        \* <<>>, or the kaioken() call of the last step: who called,
                \* the caller just before the call, and the multiplier typed

vars == <<mode, pc, chars, deck, p_hand, e_hand, p_card, e_card, e_choice,
          rnd, acted, result, atStart, atRound, atExit, call>>

Sides == {"p", "e"}

\* what a human may type at a numeric prompt
Inputs == {NonNumeric} \cup (-1..MaxInput)

\* hero at the start of a battle: a new or saved Character, after
\* maybe_learn_skills, with the hp and ki the previous battle left
Hero(xp, pack, hp0) ==
    [maybe_learn_skills(Character(1, 1000, 40, 50, <<>>, pack, xp, 0, 7))
        EXCEPT !.hp = hp0, !.is_player = TRUE]

Heroes ==
    {Hero(xp, pack, hp0) :
        xp \in {50},
        pack \in {<<"Elixir de Poder", "Pocao de Cura">>},
        hp0 \in {40}}

\* load_creatures: the roster of creatures.json
Creatures ==
    {Character(1, 800, 30, 20, <<>>, <<>>, 0, 0, 7)}
    \cup {Character(2, 1000, 30, 40, <<"Kaioken", "Cura">>, <<>>, 0, m, 7) :
            m \in 0..MaxMultCfg}

Init ==
    /\ mode \in {"battle", "auto"}
    /\ pc = "loop"
    /\ \E seed \in 1..MaxSeed :
         LET d1 == draw(_build(seed), HandSize, seed)
             d2 == draw(d1[2], HandSize, seed)
         IN  /\ p_hand = d1[1]
             /\ e_hand = d2[1]
             /\ deck = d2[2]
    /\ IF mode = "battle"
       THEN \E h \in Heroes, c \in Creatures : chars = [p |-> h, e |-> c]
       ELSE \E c1 \in Creatures, c2 \in Creatures :
              /\ c1 # c2
              /\ chars = [p |-> c1, e |-> c2]
    /\ p_card = <<>> /\ e_card = <<>> /\ e_choice = ""
    /\ rnd = 1
    /\ acted = "none"
    /\ result = "none"
    /\ atStart = chars
    /\ atRound = chars
    /\ atExit = chars
    /\ call = <<>>

BothAlive == is_alive(chars.p) /\ is_alive(chars.e)

\* the four upkeep calls at the head of each iteration
Upkeep(cs) ==
    [p |-> check_revert(process_kaioken(cs.p)),
     e |-> check_revert(process_kaioken(cs.e))]

\* variant: the check after side A's action is missing
AfterA_NoBreak(b) == "enemy"

\* the check after side A's action: "break" when side B is down
AfterA(b) == IF ~is_alive(b) THEN "post" ELSE "enemy"

\* the shuffles a rebuild can produce when up to n cards are drawn
Seeds(n) == IF Len(deck) < n THEN 1..MaxSeed ELSE {1}

\* variant: one new card for each hand, whether or not a card was played
Replenish_DrawOne(seed) ==
    LET ph == RemoveCard(p_hand, p_card)
        eh == RemoveCard(e_hand, e_card)
        d1 == draw(deck, 1, seed)
        d2 == draw(d1[2], 1, seed)
    IN  /\ p_hand' = ph \o d1[1]
        /\ e_hand' = eh \o d2[1]
        /\ deck' = d2[2]
        /\ p_card' = <<>> /\ e_card' = <<>> /\ e_choice' = ""

\* hand management at the end of an iteration
Replenish(seed) ==
    LET ph == RemoveCard(p_hand, p_card)
        eh == RemoveCard(e_hand, e_card)
        d1 == draw(deck, HandSize - Len(ph), seed)
        d2 == draw(d1[2], HandSize - Len(eh), seed)
    IN  /\ p_hand' = ph \o d1[1]
        /\ e_hand' = eh \o d2[1]
        /\ deck' = d2[2]
        /\ p_card' = <<>> /\ e_card' = <<>> /\ e_choice' = ""

\* the defending card: the opponent's chosen card, else the actor's own
DefCard(other, own) == IF other # <<>> THEN other[1] ELSE own

\* ability.effect for the side `who`, with the record of a kaioken() call
Invoke(name, who, actor, target, input) ==
    [pair |-> Effect(name, actor, target, input),
     call |-> IF name = "Kaioken"
              THEN <<[who |-> who, before |-> actor, input |-> input]>>
              ELSE <<>>]

\* the post-battle block at the end of battle(), for one character
RECURSIVE Unwind(_)
Unwind(ch) == IF ch.form_stack = <<>> THEN ch ELSE Unwind(PopForm(ch))

\* variant: `if ch.form_stack` in place of `while ch.form_stack`
PostBattleReset_OnePop(ch) ==
    LET u == [(IF ch.form_stack = <<>> THEN ch ELSE PopForm(ch))
                EXCEPT !.terminated_at = NoThreshold]
    IN  IF u.kaioken_on
        THEN [u EXCEPT !.power_level = u.kaioken_pl0, !.kaioken_on = FALSE]
        ELSE u

PostBattleReset(ch) ==
    LET u == [Unwind(ch) EXCEPT !.terminated_at = NoThreshold]
    IN  IF u.kaioken_on
        THEN [u EXCEPT !.power_level = u.kaioken_pl0, !.kaioken_on = FALSE]
        ELSE u

(* ---- battle() ---- *)

B_Upkeep ==
    /\ mode = "battle" /\ pc = "loop" /\ BothAlive
    /\ rnd <= MaxRounds
    /\ rnd' = rnd + 1
    /\ atRound' = chars
    /\ chars' = Upkeep(chars)
    /\ acted' = "none"
    /\ call' = <<>>
    /\ pc' = "decide"
    /\ UNCHANGED <<mode, deck, p_hand, e_hand, p_card, e_card, e_choice,
                   result, atStart, atExit>>

\* variant: the forfeit is noticed only after the enemy has played its card
B_Forfeit_Late ==
    /\ mode = "battle" /\ pc = "decide"
    /\ result' = "false"
    /\ chars' = [chars EXCEPT !.p =
                   play_card(chars.e, e_hand[BestCard(e_hand)], chars.p,
                             e_hand[BestCard(e_hand)])]
    /\ atExit' = chars'
    /\ pc' = "done"
    /\ UNCHANGED <<mode, deck, p_hand, e_hand, p_card, e_card, e_choice,
                   rnd, acted, atStart, atRound, call>>

\* p_choice == "q"
B_Forfeit ==
    /\ mode = "battle" /\ pc = "decide"
    /\ result' = "false"
    /\ atExit' = chars
    /\ pc' = "done"
    /\ UNCHANGED <<mode, chars, deck, p_hand, e_hand, p_card, e_card, e_choice,
                   rnd, acted, atStart, atRound, call>>

\* the transform menu of the "t" choice; sel is the text typed
TransformMenu(char, sel) ==
    LET opts == can_transform(char)
    IN  IF opts = <<>> /\ char.form_stack = <<>> THEN char
        ELSE IF sel = NonNumeric THEN char
        ELSE IF sel = 0 THEN revert_form(char)
        ELSE LET k == PyIndex(Len(opts), sel - 1)
             IN  IF k = 0 THEN char ELSE apply_transformation(char, opts[k])

\* "Jogador age": what the player's choice does to <<player, enemy>>;
\* skip is the `continue` taken when pick_ability returns None
PlayerAction(p_choice, pcard, ecard, in1, in2) ==
    LET P == chars.p
        E == chars.e
        same == [pair |-> <<P, E>>, call |-> <<>>, skip |-> FALSE]
    IN  CASE p_choice = "i" ->
               [same EXCEPT !.pair = <<use_item_menu(P, in1), E>>]
          [] p_choice = "a" ->
               LET ability == pick_ability(P, in1)
               IN  IF ability = "" THEN [same EXCEPT !.skip = TRUE]
                   ELSE IF P.ki < KiCost(ability) THEN same
                   ELSE LET r == Invoke(ability, "p",
                                        [P EXCEPT !.ki = P.ki - KiCost(ability)],
                                        E, in2)
                        IN  [same EXCEPT !.pair = r.pair, !.call = r.call]
          [] p_choice = "t" ->
               [same EXCEPT !.pair = <<TransformMenu(P, in1), E>>]
          [] OTHER ->
               IF pcard = <<>> THEN same
               ELSE [same EXCEPT !.pair =
                       <<P, play_card(P, pcard[1], E, DefCard(ecard, pcard[1]))>>]

\* the player's turn from p_choice on, for the enemy's choice ec and the
\* texts in1, in2 typed at the prompts: the values the turn leaves behind
PlayerTurn(p_choice, ec, in1, in2) ==
    LET pcard == choice_to_card(p_choice, p_hand)
        ecard == choice_to_card(ec, e_hand)
        r == PlayerAction(p_choice, pcard, ecard, in1, in2)
    IN  IF r.skip
        THEN [chars |-> [p |-> r.pair[1], e |-> r.pair[2]], call |-> r.call,
              pc |-> "loop", acted |-> acted, rnd |-> rnd - 1,
              p_card |-> <<>>, e_card |-> <<>>, e_choice |-> ""]
        ELSE [chars |-> [p |-> r.pair[1], e |-> r.pair[2]], call |-> r.call,
              pc |-> AfterA(r.pair[2]), acted |-> "A", rnd |-> rnd,
              p_card |-> pcard, e_card |-> ecard, e_choice |-> ec]

\* the step is the player's turn for these choices and texts
IsTurn(p_choice, ec, in1, in2) ==
    LET t == PlayerTurn(p_choice, ec, in1, in2)
    IN  /\ chars' = t.chars /\ call' = t.call
        /\ pc' = t.pc /\ acted' = t.acted /\ rnd' = t.rnd
        /\ p_card' = t.p_card /\ e_card' = t.e_card /\ e_choice' = t.e_choice

B_PlayerTurn ==
    /\ mode = "battle" /\ pc = "decide"
    /\ \E p_choice \in {"i", "a", "t"} \cup {Digits[i] : i \in 1..MaxPick},
          ec \in AIChoices(chars.e, e_hand) :
       \E in1 \in (IF p_choice \in {"i", "a", "t"} THEN Inputs ELSE {0}),
          in2 \in (IF p_choice = "a" THEN Inputs ELSE {0}) :
         IsTurn(p_choice, ec, in1, in2)
    /\ UNCHANGED <<mode, deck, p_hand, e_hand, result, atStart, atRound, atExit>>

\* "IA age": what the enemy's choice does to <<enemy, player>>
EnemyAction(pick, alt, input) ==
    LET P == chars.p
        E == chars.e
        same == [pair |-> <<E, P>>, call |-> <<>>]
    IN  IF e_choice = "a"
        THEN IF Usable(E) # {}
             THEN LET ab == E.abilities[pick]
                  IN  Invoke(ab, "e", [E EXCEPT !.ki = E.ki - KiCost(ab)], P, 0)
             ELSE [same EXCEPT !.pair =
                     <<E, play_card(E, e_hand[alt], P, DefCard(p_card, e_hand[alt]))>>]
        ELSE IF e_choice = "i"
        THEN [same EXCEPT !.pair = <<use_item_menu(E, input), P>>]
        ELSE IF e_card # <<>>
        THEN [same EXCEPT !.pair =
                <<E, play_card(E, e_card[1], P, DefCard(p_card, e_card[1]))>>]
        ELSE same

B_EnemyTurn ==
    /\ mode = "battle" /\ pc = "enemy"
    /\ \E pick \in (IF e_choice = "a" /\ Usable(chars.e) # {}
                    THEN Usable(chars.e) ELSE {0}),
          alt \in (IF e_choice = "a" /\ Usable(chars.e) = {}
                   THEN 1..Len(e_hand) ELSE {1}),
          input \in (IF e_choice = "i" THEN Inputs ELSE {0}),
          seed \in Seeds(2) :
         LET r == EnemyAction(pick, alt, input)
         IN  /\ chars' = [p |-> r.pair[2], e |-> r.pair[1]]
             /\ call' = r.call
             /\ Replenish(seed)
    /\ acted' = "AB"
    /\ pc' = "loop"
    /\ UNCHANGED <<mode, rnd, result, atStart, atRound, atExit>>

\* after the loop: reward for the winner, then the reset of both sides
B_Post ==
    /\ mode = "battle"
    /\ pc = "post" \/ (pc = "loop" /\ ~BothAlive)
    /\ atExit' = chars
    /\ \E base \in (IF is_alive(chars.p) THEN ExpBases ELSE {0}),
          factors \in (IF is_alive(chars.p) THEN [1..1 -> LevelFactors]
                       ELSE {<<100>>}),
          r \in (IF is_alive(chars.p) THEN {"rare", "common", "none"}
                 ELSE {"none"}) :
         LET won == is_alive(chars.p)
             gained == (base * chars.e.level) \div Max(1, chars.p.level)
             hero == IF won
                     THEN drop_item(gain_exp(chars.p, gained, factors), r)
                     ELSE chars.p
         IN  /\ chars' = [p |-> PostBattleReset(hero),
                          e |-> PostBattleReset(chars.e)]
             /\ result' = IF won THEN "true" ELSE "false"
    /\ call' = <<>>
    /\ pc' = "done"
    /\ UNCHANGED <<mode, deck, p_hand, e_hand, p_card, e_card, e_choice, rnd,
                   acted, atStart, atRound>>

(* ---- auto_battle() ---- *)

A_Upkeep ==
    /\ mode = "auto" /\ pc = "loop" /\ BothAlive
    /\ rnd <= MaxRounds
    /\ rnd' = rnd + 1
    /\ atRound' = chars
    /\ chars' = Upkeep(chars)
    /\ acted' = "none"
    /\ call' = <<>>
    /\ pc' = "decide"
    /\ UNCHANGED <<mode, deck, p_hand, e_hand, p_card, e_card, e_choice,
                   result, atStart, atExit>>

\* one monster's action in auto_battle: <<actor, target>> afterwards;
\* pick = 0 is random.choice([None])
AutoAction(who, actor, target, choice, card, other, pick) ==
    LET same == [pair |-> <<actor, target>>, call |-> <<>>]
    IN  IF choice = "a"
        THEN IF pick = 0 THEN same
             ELSE LET ab == actor.abilities[pick]
                  IN  IF actor.ki < KiCost(ab) THEN same
                      ELSE Invoke(ab, who,
                                  [actor EXCEPT !.ki = actor.ki - KiCost(ab)],
                                  target, 0)
        ELSE IF card # <<>>
        THEN [same EXCEPT !.pair =
                <<actor, play_card(actor, card[1], target, DefCard(other, card[1]))>>]
        ELSE same

A_Turn1 ==
    /\ mode = "auto" /\ pc = "decide"
    /\ \E c1_choice \in AIChoices(chars.p, p_hand),
          c2_choice \in AIChoices(chars.e, e_hand) :
       \E pick \in (IF c1_choice = "a" /\ Usable(chars.p) # {}
                    THEN Usable(chars.p) ELSE {0}) :
         LET pcard == choice_to_card(c1_choice, p_hand)
             ecard == choice_to_card(c2_choice, e_hand)
             r == AutoAction("p", chars.p, chars.e, c1_choice, pcard, ecard, pick)
         IN  /\ p_card' = pcard
             /\ e_card' = ecard
             /\ e_choice' = c2_choice
             /\ chars' = [p |-> r.pair[1], e |-> r.pair[2]]
             /\ call' = r.call
             /\ pc' = AfterA(r.pair[2])
    /\ acted' = "A"
    /\ UNCHANGED <<mode, deck, p_hand, e_hand, rnd, result, atStart, atRound,
                   atExit>>

A_Turn2 ==
    /\ mode = "auto" /\ pc = "enemy"
    /\ \E pick \in (IF e_choice = "a" /\ Usable(chars.e) # {}
                    THEN Usable(chars.e) ELSE {0}),
          seed \in Seeds(2) :
         LET r == AutoAction("e", chars.e, chars.p, e_choice, e_card, p_card, pick)
         IN  /\ chars' = [p |-> r.pair[2], e |-> r.pair[1]]
             /\ call' = r.call
             /\ Replenish(seed)
    /\ acted' = "AB"
    /\ pc' = "loop"
    /\ UNCHANGED <<mode, rnd, result, atStart, atRound, atExit>>

\* auto_battle returns once the loop is left; it has no reset block
A_End ==
    /\ mode = "auto"
    /\ pc = "post" \/ (pc = "loop" /\ ~BothAlive)
    /\ atExit' = chars
    /\ call' = <<>>
    /\ pc' = "done"
    /\ UNCHANGED <<mode, chars, deck, p_hand, e_hand, p_card, e_card, e_choice,
                   rnd, acted, result, atStart, atRound>>

Next ==
    \/ B_Upkeep
    \/ B_Forfeit
    \/ B_PlayerTurn
    \/ B_EnemyTurn
    \/ B_Post
    \/ A_Upkeep
    \/ A_Turn1
    \/ A_Turn2
    \/ A_End

Spec == Init /\ [][Next]_vars

----------------------------------------------------------------------------
(* 7. Properties                                                           *)

Done == pc = "done"

\* the loop was left because one side was down
KnockedOut == ~(is_alive(atExit.p) /\ is_alive(atExit.e))

\* battle() returned from the "q" branch
Forfeited == mode = "battle" /\ Done /\ ~KnockedOut

Baseline(ch) ==
    /\ ch.form_stack = <<>>
    /\ ch.form_name = "Base"
    /\ ~ch.kaioken_on

\* C1: when battle() returns after a knock-out, both combatants have an
\* empty form_stack, form_name "Base", no terminated_at and no boost,
\* whatever depth and boost state they had when the loop was left.
C1_ResetAfterKO ==
    (mode = "battle" /\ Done /\ KnockedOut) =>
        \A s \in Sides :
            Baseline(chars[s]) /\ chars[s].terminated_at = NoThreshold

\* a knock-out while the player is transformed and boosted
C1_Witness ==
    /\ mode = "battle" /\ Done /\ KnockedOut
    /\ Len(atExit.p.form_stack) >= 1
    /\ atExit.p.kaioken_on

\* C2: a side that gained no level and used no item has, when battle()
\* returns after a knock-out, the power_level, max_hp and max_ki it had in
\* Base form without boost when the battle started.
C2_StatsRestored ==
    (mode = "battle" /\ Done /\ KnockedOut) =>
        \A s \in Sides :
            (chars[s].level = atStart[s].level
             /\ atExit[s].backpack = atStart[s].backpack) =>
                /\ chars[s].power_level = atStart[s].power_level
                /\ chars[s].max_hp = atStart[s].max_hp
                /\ chars[s].max_ki = atStart[s].max_ki

\* C3: when the human forfeits, battle() also returns with both combatants
\* at baseline: empty form_stack, form_name "Base", boost inactive.
C3_ResetAfterForfeit ==
    Forfeited => \A s \in Sides : Baseline(chars[s])

\* C4: when auto_battle() returns, both characters have no boost, their
\* pre-battle power_level and an empty form_stack.
C4_AutoBaseline ==
    (mode = "auto" /\ Done) =>
        \A s \in Sides :
            /\ ~chars[s].kaioken_on
            /\ chars[s].power_level = atStart[s].power_level
            /\ chars[s].form_stack = <<>>

RECURSIVE Grow(_, _)
\* floor(x * 1.05) applied k times
Grow(x, k) == IF k = 0 THEN x ELSE Grow((x * 105) \div 100, k - 1)

\* C5: after a win with k >= 1 level-ups, max_hp and max_ki are the Base
\* values of the start grown k times by floor(x * 1.05) and power_level is
\* above its starting value, whatever form or boost the winner was in.
C5_LevelUpKept ==
    (mode = "battle" /\ Done /\ result = "true"
     /\ chars.p.level > atStart.p.level) =>
        LET k == chars.p.level - atStart.p.level
        IN  /\ chars.p.max_hp = Grow(atStart.p.max_hp, k)
            /\ chars.p.max_ki = Grow(atStart.p.max_ki, k)
            /\ chars.p.power_level > atStart.p.power_level

\* C6: the step that takes the forfeit returns False at once: no action of
\* the round has resolved, the opponent's hp is what it was when the round
\* began, no exp is granted and both hands keep their cards.
C6_ForfeitImmediate ==
    [][(mode = "battle" /\ pc = "decide" /\ pc' = "done") =>
          /\ result' = "false"
          /\ acted' = "none"
          /\ chars'.e.hp = atRound.e.hp
          /\ chars'.p.hp = chars.p.hp /\ chars'.p.ki = chars.p.ki
          /\ chars'.p.exp = atStart.p.exp /\ chars'.p.level = atStart.p.level
          /\ p_hand' = p_hand /\ e_hand' = e_hand /\ deck' = deck]_vars

\* a forfeit in a round after the first
C6_Witness == Forfeited /\ rnd > 2 /\ result = "false"

\* C7: side B acts in a round only if it is still up after side A's action;
\* when side A's action brings side B down the loop is left at once, with
\* only side A's action resolved.
C7_OrderAndBreak ==
    /\ pc = "enemy" => is_alive(chars.e)
    /\ pc = "post" => (acted = "A" /\ ~is_alive(chars.e))
    /\ acted = "AB" => is_alive(chars.e)

\* side A has just brought side B down in auto_battle()
C7_Witness == pc = "post" /\ mode = "auto" /\ ~is_alive(chars.e)

\* C8: in every state of a battle both combatants have 0 <= hp <= max_hp
\* and 0 <= ki <= max_ki.
C8_Ranges ==
    \A s \in Sides :
        /\ 0 <= chars[s].hp /\ chars[s].hp <= chars[s].max_hp
        /\ 0 <= chars[s].ki /\ chars[s].ki <= chars[s].max_ki

\* the post-battle reset has clamped an hp that was above the Base maximum
C8_Witness ==
    /\ mode = "battle" /\ Done
    /\ atExit.p.hp > atStart.p.max_hp
    /\ chars.p.hp = chars.p.max_hp

\* C9: a kaioken() call with multiplier m leaves the caller unchanged when
\* the boost is already active, m <= 0 or ki < cost_unit * m; otherwise it
\* pays the cost, saves power_level, and sets the boost, the multiplier and
\* power_level = floor(power_level * (1 + 0.5 * m)).
C9_Activation ==
    call # <<>> =>
        LET b == call[1].before
            a == chars[call[1].who]
            m == IF b.is_player THEN call[1].input ELSE b.kaioken_mult_cfg
            cost == b.kaioken_cost_unit * m
        IN  IF b.kaioken_on \/ m <= 0 \/ b.ki < cost
            THEN a = b
            ELSE a = [b EXCEPT !.ki = b.ki - cost,
                               !.kaioken_pl0 = b.power_level,
                               !.kaioken_on = TRUE,
                               !.kaioken_mult = m,
                               !.power_level = (b.power_level * (2 + m)) \div 2]

\* C10: for every character, an active boost has a multiplier above 0.
C10_ActiveHasMult ==
    \A s \in Sides : chars[s].kaioken_on => chars[s].kaioken_mult > 0

----------------------------------------------------------------------------
(* 8. kaioken(), cancel_kaioken() and process_kaioken() on their own      *)

\* the variables of the battle loop that a single operation does not use
Parked ==
    /\ deck = <<>> /\ p_hand = <<>> /\ e_hand = <<>>
    /\ p_card = <<>> /\ e_card = <<>> /\ e_choice = ""
    /\ result = "none"

\* a human or AI character of any power_level, with or without the ki to
\* pay for a boost
InitKaioken ==
    /\ mode = "kaioken"
    /\ pc = "start"
    /\ \E pl \in 1..MaxPower, mki \in {0, 50}, cfg \in 0..MaxMultCfg,
          human \in BOOLEAN :
         chars = [p |-> [Character(1, pl, 40, mki, <<"Kaioken">>, <<>>, 0, cfg, 7)
                           EXCEPT !.is_player = human],
                  e |-> Character(1, 800, 30, 20, <<>>, <<>>, 0, 0, 7)]
    /\ Parked
    /\ rnd = 1
    /\ acted = "none"
    /\ atStart = chars
    /\ atRound = chars
    /\ atExit = chars
    /\ call = <<>>

\* kaioken(attacker, _), with what is typed at its prompt
K_Activate ==
    /\ mode = "kaioken" /\ pc = "start"
    /\ \E input \in Inputs :
         /\ chars' = [chars EXCEPT !.p = kaioken(chars.p, input)]
         /\ call' = <<[who |-> "p", before |-> chars.p, input |-> input]>>
    /\ pc' = "called"
    /\ acted' = "kaioken"
    /\ UNCHANGED <<mode, deck, p_hand, e_hand, p_card, e_card, e_choice, rnd,
                   result, atStart, atRound, atExit>>

\* cancel_kaioken(char), right after the call of kaioken
K_Cancel ==
    /\ mode = "kaioken" /\ pc = "called"
    /\ atRound' = chars
    /\ chars' = [chars EXCEPT !.p = cancel_kaioken(chars.p)]
    /\ pc' = "cancelled"
    /\ acted' = "cancel_kaioken"
    /\ UNCHANGED <<mode, deck, p_hand, e_hand, p_card, e_card, e_choice, rnd,
                   result, atStart, atExit, call>>

\* process_kaioken(char), the boost upkeep of one round; atExit keeps the
\* characters of before the call
K_Upkeep ==
    /\ mode = "kaioken" /\ pc \in {"start", "called"}
    /\ atExit' = chars
    /\ chars' = [chars EXCEPT !.p = process_kaioken(chars.p)]
    /\ acted' = "process_kaioken"
    /\ UNCHANGED <<mode, pc, deck, p_hand, e_hand, p_card, e_card, e_choice,
                   rnd, result, atStart, atRound, call>>

NextKaioken ==
    \/ K_Activate
    \/ K_Cancel
    \/ K_Upkeep

SpecKaioken == InitKaioken /\ [][NextKaioken]_vars

\* C11: for every power_level and every accepted multiplier, activating
\* the boost and cancelling it at once gives power_level its value of
\* before the activation and leaves the boost off, with the multiplier and
\* the saved base at 0.
C11_BoostRoundTrip ==
    (pc = "cancelled" /\ atRound.p.kaioken_on) =>
        /\ chars.p.power_level = atStart.p.power_level
        /\ ~chars.p.kaioken_on
        /\ chars.p.kaioken_mult = 0
        /\ chars.p.kaioken_pl0 = 0

\* an accepted boost of an odd power_level, rounded down, has been cancelled
C11_Witness ==
    /\ pc = "cancelled"
    /\ atRound.p.kaioken_on
    /\ atStart.p.power_level % 2 = 1
    /\ atRound.p.power_level > atStart.p.power_level

\* C21: process_kaioken changes nothing when the boost is inactive; when
\* it is active, with cost = kaioken_cost_unit * kaioken_mult, it takes
\* exactly cost from ki and keeps the boost and power_level if ki >= cost,
\* and otherwise keeps ki, switches the boost off and sets power_level
\* back to kaioken_pl0.
C21_Upkeep ==
    acted = "process_kaioken" =>
        LET b == atExit.p
            a == chars.p
            cost == b.kaioken_cost_unit * b.kaioken_mult
        IN  IF ~b.kaioken_on THEN a = b
            ELSE IF b.ki >= cost
            THEN /\ a.ki = b.ki - cost
                 /\ a.kaioken_on
                 /\ a.power_level = b.power_level
            ELSE /\ a.ki = b.ki
                 /\ ~a.kaioken_on
                 /\ a.power_level = b.kaioken_pl0

----------------------------------------------------------------------------
(* 9. The transformation stack on its own                                  *)

\* the hero at some point of a battle: either level, full or low hp
InitForm ==
    /\ mode = "form"
    /\ pc = "call"
    /\ \E lvl \in 1..2, pl \in {1000, 1001}, mhp \in {40, 45}, hp0 \in {40, 10} :
         chars = [p |-> [Character(lvl, pl, mhp, 50, <<"Kaioken">>, <<>>, 0, 0, 7)
                           EXCEPT !.hp = hp0, !.is_player = TRUE],
                  e |-> Character(1, 800, 30, 20, <<>>, <<>>, 0, 0, 7)]
    /\ Parked
    /\ rnd = 1
    /\ acted = <<"none", "none">>
    /\ atStart = chars
    /\ atRound = chars
    /\ atExit = chars
    /\ call = <<>>

\* one call on the hero: acted keeps the names of the last two calls,
\* atRound the characters before the last call, atExit before the one
\* that preceded it
FormCall(name, after) ==
    /\ mode = "form" /\ pc = "call"
    /\ rnd <= MaxOps
    /\ rnd' = rnd + 1
    /\ chars' = [chars EXCEPT !.p = after]
    /\ acted' = <<acted[2], name>>
    /\ atRound' = chars
    /\ atExit' = atRound
    /\ UNCHANGED <<mode, pc, deck, p_hand, e_hand, p_card, e_card, e_choice,
                   result, atStart, call>>

F_Kaioken ==
    \E m \in 1..MaxInput : FormCall("kaioken", kaioken(chars.p, m))

F_Apply ==
    \E k \in 1..Len(can_transform(chars.p)) :
        FormCall("apply_transformation",
                 apply_transformation(chars.p, can_transform(chars.p)[k]))

F_Revert == FormCall("revert_form", revert_form(chars.p))

F_Check == FormCall("check_revert", check_revert(chars.p))

NextForm ==
    \/ F_Kaioken
    \/ F_Apply
    \/ F_Revert
    \/ F_Check

SpecForm == InitForm /\ [][NextForm]_vars

ApplyThenRevert == acted = <<"apply_transformation", "revert_form">>

\* C12: apply_transformation followed by revert_form gives power_level,
\* max_hp, max_ki and form_name the values they had just before the
\* transformation, with hp <= max_hp and ki <= max_ki afterwards.
C12_RoundTrip ==
    ApplyThenRevert =>
        /\ chars.p.power_level = atExit.p.power_level
        /\ chars.p.max_hp = atExit.p.max_hp
        /\ chars.p.max_ki = atExit.p.max_ki
        /\ chars.p.form_name = atExit.p.form_name
        /\ chars.p.hp <= chars.p.max_hp
        /\ chars.p.ki <= chars.p.max_ki

\* C12, amended: apply_transformation followed by revert_form gives max_hp,
\* max_ki and form_name the values they had just before the
\* transformation, and power_level the value it had then if no boost was
\* active, else the base that the boost had saved; the boost is off, and
\* hp <= max_hp and ki <= max_ki afterwards.
C12_RoundTripUnboosted ==
    ApplyThenRevert =>
        /\ chars.p.power_level = IF atExit.p.kaioken_on
                                 THEN atExit.p.kaioken_pl0
                                 ELSE atExit.p.power_level
        /\ ~chars.p.kaioken_on
        /\ chars.p.max_hp = atExit.p.max_hp
        /\ chars.p.max_ki = atExit.p.max_ki
        /\ chars.p.form_name = atExit.p.form_name
        /\ chars.p.hp <= chars.p.max_hp
        /\ chars.p.ki <= chars.p.max_ki

\* a boosted and already transformed hero has transformed again and reverted
C12_Witness ==
    /\ ApplyThenRevert
    /\ atExit.p.kaioken_on
    /\ atExit.p.form_stack # <<>>
    /\ chars.p.power_level < atExit.p.power_level

\* check_revert is due: a threshold is set and hp / max_hp is at or below it
Due(ch) ==
    /\ ch.terminated_at # NoThreshold
    /\ ch.hp * 100 <= ch.terminated_at * ch.max_hp

\* C13: check_revert pops exactly one snapshot of form_stack when
\* terminated_at is set and hp / max_hp <= terminated_at, whatever the
\* depth of the stack, and changes nothing otherwise; the pop clears the
\* threshold, so that a check following a check never pops again.
C13_OnePopPerCheck ==
    /\ acted[2] = "check_revert" =>
          IF Due(atRound.p)
          THEN /\ chars.p.form_stack =
                    SubSeq(atRound.p.form_stack, 1,
                           Len(atRound.p.form_stack) - 1)
               /\ Len(chars.p.form_stack) = Len(atRound.p.form_stack) - 1
               /\ chars.p.terminated_at = NoThreshold
          ELSE chars.p = atRound.p
    /\ acted = <<"check_revert", "check_revert">> => chars.p = atRound.p

\* a check has unwound one level of a stack of three forms
C13_Witness ==
    /\ acted[2] = "check_revert"
    /\ Len(atRound.p.form_stack) = 3
    /\ Len(chars.p.form_stack) = 2

----------------------------------------------------------------------------
(* 10. One round of battle() for a saved hero                              *)

\* a hero of level 2 loaded from a save: the abilities of the save come
\* first, maybe_learn_skills appends the others; ki is what the previous
\* battle left
TurnHero(saved, pack, ki0) ==
    [maybe_learn_skills(Character(2, 1000, 40, 50, saved, pack, 0, 0, 7))
        EXCEPT !.ki = ki0, !.is_player = TRUE]

TurnHeroes ==
    {TurnHero(saved, pack, ki0) :
        saved \in {<<>>, <<"Cura">>},
        pack \in {<<>>, <<"Pocao de Cura">>},
        ki0 \in {5, 50}}

\* battle() entered with one of these heroes, at its last modelled round
InitTurn ==
    /\ mode = "battle"
    /\ pc = "loop"
    /\ \E seed \in 1..MaxSeed :
         LET d1 == draw(_build(seed), HandSize, seed)
             d2 == draw(d1[2], HandSize, seed)
         IN  /\ p_hand = d1[1]
             /\ e_hand = d2[1]
             /\ deck = d2[2]
    /\ \E h \in TurnHeroes, c \in Creatures : chars = [p |-> h, e |-> c]
    /\ p_card = <<>> /\ e_card = <<>> /\ e_choice = ""
    /\ rnd = MaxRounds
    /\ acted = "none"
    /\ result = "none"
    /\ atStart = chars
    /\ atRound = chars
    /\ atExit = chars
    /\ call = <<>>

NextTurn ==
    \/ B_Upkeep
    \/ B_Forfeit
    \/ B_PlayerTurn
    \/ B_EnemyTurn
    \/ B_Post

SpecTurn == InitTurn /\ [][NextTurn]_vars

Deciding == mode = "battle" /\ pc = "decide"

\* the ability picked with in1 costs more ki than the player has, or is a
\* boost activation that kaioken() rejects for the multiplier in2
Unaffordable(in1, in2) ==
    LET P == chars.p
        ab == pick_ability(P, in1)
    IN  /\ ab # ""
        /\ \/ P.ki < KiCost(ab)
           \/ /\ ab = "Kaioken"
              /\ \/ P.kaioken_on
                 \/ in2 = NonNumeric
                 \/ in2 <= 0
                 \/ P.ki < P.kaioken_cost_unit * in2

\* C14: when the ability the player chose costs more ki than the player
\* has, or is a rejected boost activation, no ki is deducted, no effect is
\* applied and the turn is not consumed: control goes back to the player's
\* decision, not to the enemy's action.
C14_UnaffordableKeepsTurn ==
    [][\A in1 \in Inputs, in2 \in Inputs, ec \in AIChoices(chars.e, e_hand) :
         (Deciding /\ Unaffordable(in1, in2) /\ IsTurn("a", ec, in1, in2))
            => /\ chars' = chars
               /\ pc' \in {"decide", "loop"}]_vars

\* what is typed at the menu of p_choice is not one of its entries
InputError(p_choice, in1) ==
    LET P == chars.p
    IN  CASE p_choice = "a" -> in1 \notin 1..Len(P.abilities)
          [] p_choice = "i" -> in1 \notin 1..Len(P.backpack)
          [] p_choice = "t" -> in1 \notin 0..Len(can_transform(P))

\* C15: a local input error of the player (ability selection cancelled or
\* out of range, item use with an empty backpack or with an index that is
\* out of range or not a number, invalid transform index) changes no field
\* of either character and does not consume the turn: the enemy does not
\* act and no upkeep is charged before the player decides again.
C15_InputErrorKeepsTurn ==
    [][\A p_choice \in {"a", "i", "t"}, in1 \in Inputs,
          ec \in AIChoices(chars.e, e_hand) :
         (Deciding /\ InputError(p_choice, in1) /\ IsTurn(p_choice, ec, in1, 1))
            => /\ chars' = chars
               /\ pc' \in {"decide", "loop"}
               /\ Upkeep(chars') = chars']_vars

----------------------------------------------------------------------------
(* 11. Hands, deck, experience and damage                                  *)

\* `after` is `hand` without the card played, if any, refilled at the end
Kept(hand, card, after) ==
    IF card = <<>> THEN after = hand
    ELSE \E k \in 1..Len(hand) :
           /\ hand[k] = card[1]
           /\ SubSeq(after, 1, HandSize - 1) = RemoveAt(hand, k)

\* C16: at the end of every completed round of battle() and auto_battle()
\* each hand holds exactly 5 cards, and a side's hand has lost a card iff
\* that side played that card in the round: a side that took an ability,
\* item or transform turn keeps its whole hand.  (Side B of battle() plays
\* a card it keeps only when it chose "a" and can pay for no ability.)
C16_HandsRefilled ==
    [][(pc = "enemy" /\ pc' = "loop") =>
          /\ Len(p_hand') = HandSize
          /\ Len(e_hand') = HandSize
          /\ Kept(p_hand, p_card, p_hand')
          /\ Kept(e_hand, e_card, e_hand')
          /\ ~(mode = "battle" /\ e_choice = "a" /\ Usable(chars.e) = {})]_vars

\* a round is complete in which one side played a card and the other did not
C16_Witness ==
    /\ pc = "loop" /\ acted = "AB"
    /\ Len(p_hand) = HandSize /\ Len(e_hand) = HandSize
    /\ Len(deck) = DeckSize - 2 * HandSize - 1

(* ---- Deck on its own ---- *)

\* a new Deck: Deck.__init__ builds and shuffles
InitDeck ==
    /\ mode = "deck"
    /\ pc = "draw"
    /\ \E seed \in 1..MaxSeed : deck = _build(seed)
    /\ chars = [p |-> Character(1, 800, 30, 20, <<>>, <<>>, 0, 0, 7),
                e |-> Character(1, 800, 30, 20, <<>>, <<>>, 0, 0, 7)]
    /\ p_hand = <<>> /\ e_hand = <<>>
    /\ p_card = <<>> /\ e_card = <<>> /\ e_choice = ""
    /\ result = "none"
    /\ rnd = 0
    /\ acted = "none"
    /\ atStart = chars
    /\ atRound = chars
    /\ atExit = chars
    /\ call = <<>>

\* Deck.draw(n): p_hand is the list returned, rnd the n of the call, acted
\* tells whether the call rebuilt the deck
D_Draw ==
    /\ mode = "deck"
    /\ \E n \in 0..DeckSize : \E seed \in Seeds(n) :
         LET d == draw(deck, n, seed)
         IN  /\ p_hand' = d[1]
             /\ deck' = d[2]
             /\ rnd' = n
             /\ acted' = IF Len(deck) < n THEN "rebuilt" ELSE "drawn"
    /\ UNCHANGED <<mode, pc, chars, e_hand, p_card, e_card, e_choice, result,
                   atStart, atRound, atExit, call>>

NextDeck == D_Draw

SpecDeck == InitDeck /\ [][NextDeck]_vars

\* 63 cards, each (number, symbol) pair exactly 3 times
FullDeck(cards) ==
    /\ Len(cards) = DeckSize
    /\ \A num \in 1..MaxNumber, k \in 1..Len(Symbol) :
         Cardinality({i \in 1..Len(cards) : cards[i] = Card(num, Symbol[k])})
            = DeckCopies

\* C17: Deck.draw(n) for 0 <= n <= 63 returns exactly n cards, the front
\* of the deck in order; when fewer than n cards remain, they are the front
\* of a rebuilt deck of 63 cards with each of the 21 (number, symbol) pairs
\* 3 times, which holds 63 - n cards afterwards; otherwise the deck
\* shrinks by exactly n.
C17_Draw ==
    [][LET n == rnd'
       IN  /\ Len(p_hand') = n
           /\ IF Len(deck) < n
              THEN /\ FullDeck(p_hand' \o deck')
                   /\ Len(deck') = DeckSize - n
              ELSE /\ p_hand' = SubSeq(deck, 1, n)
                   /\ deck' = SubSeq(deck, n + 1, Len(deck))
                   /\ Len(deck') = Len(deck) - n]_vars

\* a draw has found too few cards left and has rebuilt the deck
C17_Witness ==
    /\ mode = "deck" /\ acted = "rebuilt"
    /\ rnd > 0 /\ Len(p_hand) = rnd
    /\ Len(deck) + Len(p_hand) = DeckSize

(* ---- Character.gain_exp on its own ---- *)

\* experience rewards tried, around the thresholds 100 and 100 + 200
Amounts == {0, 1, 99, 100, 250, 299, 300, 1000}

\* a character of any level with less experience than its next threshold
InitExp ==
    /\ mode = "exp"
    /\ pc = "start"
    /\ \E lvl \in 1..MaxLevel :
       \E xp \in {0, 1, 50, 100 * lvl - 1} :
         chars = [p |-> Character(lvl, 1000, 40, 50, <<>>, <<>>, xp, 0, 7),
                  e |-> Character(1, 800, 30, 20, <<>>, <<>>, 0, 0, 7)]
    /\ Parked
    /\ rnd = 0
    /\ acted = "none"
    /\ atStart = chars
    /\ atRound = chars
    /\ atExit = chars
    /\ call = <<>>

\* char.gain_exp(amount); rnd keeps the amount
X_Gain ==
    /\ mode = "exp" /\ pc = "start"
    /\ \E amount \in Amounts, factors \in [1..1 -> LevelFactors] :
         /\ chars' = [chars EXCEPT !.p = gain_exp(chars.p, amount, factors)]
         /\ rnd' = amount
    /\ pc' = "gained"
    /\ acted' = "gain_exp"
    /\ UNCHANGED <<mode, deck, p_hand, e_hand, p_card, e_card, e_choice,
                   result, atStart, atRound, atExit, call>>

NextExp == X_Gain

SpecExp == InitExp /\ [][NextExp]_vars

\* 100 * lo + ... + 100 * hi
RECURSIVE Thresholds(_, _)
Thresholds(lo, hi) == IF lo > hi THEN 0 ELSE 100 * lo + Thresholds(lo + 1, hi)

\* C18: gain_exp(amount) with amount >= 0, from level L0 and exp
\* E0 < 100 * L0, ends at a level L1 >= L0 with 0 <= exp < 100 * L1 and
\* E0 + amount = exp + the sum of 100 * l for l in L0..L1-1; level 1,
\* exp 0, gain 250 gives level 2, exp 150.
C18_GainExp ==
    pc = "gained" =>
        LET b == atStart.p
            a == chars.p
        IN  /\ a.level >= b.level
            /\ 0 <= a.exp /\ a.exp < 100 * a.level
            /\ b.exp + rnd = a.exp + Thresholds(b.level, a.level - 1)
            /\ (b.level = 1 /\ b.exp = 0 /\ rnd = 250)
                  => (a.level = 2 /\ a.exp = 150)

\* one call has gone up several levels
C18_Witness ==
    /\ pc = "gained"
    /\ chars.p.level >= atStart.p.level + 2
    /\ chars.p.exp > 0

(* ---- Character.play_card on its own ---- *)

\* power levels tried on both sides
DamagePLs == {500, 1000, 1500, 2000}

\* any card against any card, at any two of these power levels; the
\* target has more hp than one card can take away
InitDamage ==
    /\ mode = "damage"
    /\ pc = "start"
    /\ \E n \in 1..MaxNumber, k \in 1..Len(Symbol),
          dn \in 1..MaxNumber, dk \in 1..Len(Symbol) :
         /\ p_card = <<Card(n, Symbol[k])>>
         /\ e_card = <<Card(dn, Symbol[dk])>>
    /\ \E apl \in DamagePLs, dpl \in DamagePLs :
         chars = [p |-> Character(1, apl, 40, 50, <<>>, <<>>, 0, 0, 7),
                  e |-> Character(1, dpl, 1000, 20, <<>>, <<>>, 0, 0, 7)]
    /\ deck = <<>> /\ p_hand = <<>> /\ e_hand = <<>>
    /\ e_choice = ""
    /\ result = "none"
    /\ rnd = 1
    /\ acted = "none"
    /\ atStart = chars
    /\ atRound = chars
    /\ atExit = chars
    /\ call = <<>>

\* player.char.play_card(p_card, enemy.char, e_card)
G_Play ==
    /\ mode = "damage" /\ pc = "start"
    /\ chars' = [chars EXCEPT !.e = play_card(chars.p, p_card[1], chars.e,
                                              e_card[1])]
    /\ pc' = "played"
    /\ acted' = "play_card"
    /\ UNCHANGED <<mode, deck, p_hand, e_hand, p_card, e_card, e_choice, rnd,
                   result, atStart, atRound, atExit, call>>

NextDamage == G_Play

SpecDamage == InitDamage /\ [][NextDamage]_vars

\* the hp the card has taken from the target
Dealt == atStart.e.hp - chars.e.hp

\* C19: the damage of a card is never negative, does not decrease when
\* the attacker's power_level grows or when the number of the attacking
\* card grows (defending card and power levels fixed), and 7-STAR against
\* 1-TRIANGLE at power_level 1000 on both sides deals strictly more than
\* 1-TRIANGLE against 7-STAR.
C19_Damage ==
    pc = "played" =>
        LET card == p_card[1]
            def_card == e_card[1]
            apl == chars.p.power_level
            dpl == chars.e.power_level
        IN  /\ Dealt >= 0
            /\ \A apl2 \in DamagePLs :
                 apl2 >= apl => CardDamage(card, def_card, apl2, dpl) >= Dealt
            /\ \A n2 \in card.number..MaxNumber :
                 CardDamage(Card(n2, card.symbol), def_card, apl, dpl) >= Dealt
            /\ (/\ card = Card(MaxNumber, "STAR")
                /\ def_card = Card(1, "TRIANGLE")
                /\ apl = 1000 /\ dpl = 1000)
                  => Dealt > CardDamage(def_card, card, apl, dpl)

\* 7-STAR has hit 1-TRIANGLE at power_level 1000 on both sides, for 32
C19_Witness ==
    /\ pc = "played"
    /\ p_card = <<Card(MaxNumber, "STAR")>>
    /\ e_card = <<Card(1, "TRIANGLE")>>
    /\ chars.p.power_level = 1000 /\ chars.e.power_level = 1000
    /\ Dealt = 32

(* ---- upkeep ---- *)

\* C20: in every round of battle() and auto_battle() upkeep runs exactly
\* once per side, before any decision and in the order boost upkeep, then
\* auto-revert check; after the first round it follows a completed round,
\* and boost upkeep ki is charged at most once per side between two
\* resolved player actions.
C20_UpkeepOncePerRound ==
    [][(pc = "loop" /\ pc' = "decide") =>
          /\ \A s \in Sides :
               chars'[s] = check_revert(process_kaioken(chars[s]))
          /\ rnd > 1 => acted = "AB"
          /\ acted # "AB" => \A s \in Sides : chars'[s].ki = chars[s].ki]_vars

(* ---- the transformation stack during a battle ---- *)

\* the post-battle block of battle() is the next thing to run
AtReset == mode = "battle" /\ (pc = "post" \/ (pc = "loop" /\ ~BothAlive))

\* C22: whenever a snapshot is pushed onto or popped from form_stack the
\* boost is already off, so that no pop is overwritten afterwards by the
\* restore of a boost: a character whose stack the post-battle block is
\* about to unwind has no active boost, and after the block its
\* power_level is the one of the bottom snapshot.
C22_BoostOffAtPushPop ==
    /\ AtReset =>
          \A s \in Sides :
              chars[s].form_stack # <<>> => ~chars[s].kaioken_on
    /\ (mode = "battle" /\ Done /\ KnockedOut) =>
          \A s \in Sides :
              atExit[s].form_stack # <<>> =>
                  chars[s].power_level = atExit[s].form_stack[1].power_level

\* the transformations the configuration allows a character to take now
Allowed(ch) ==
    {t \in {Transformations[i] : i \in 1..Len(Transformations)} :
        /\ ch.level >= t.level_enabled
        /\ t.name # ch.form_name
        /\ \/ t.required = "" /\ ch.form_name = "Base" /\ ch.form_stack = <<>>
           \/ t.required # "" /\ ch.form_name = t.required}

\* the player as the turn of the current round found it: after the upkeep
BeforeTurn == Upkeep(atRound).p

\* the player's turn of this round has pushed a snapshot
Transformed ==
    /\ mode = "battle" /\ acted = "A"
    /\ Len(chars.p.form_stack) = Len(BeforeTurn.form_stack) + 1

\* C23: can_transform returns exactly the configured transformations that
\* the character's level reaches, that are not its current form, and that
\* either have no prerequisite while the character is in "Base" with an
\* empty stack or have its current form as prerequisite; a transformation
\* applied in a battle is one of them at the time it is applied.
C23_CanTransform ==
    /\ \A s \in Sides :
         LET opts == can_transform(chars[s])
         IN  /\ {opts[i] : i \in 1..Len(opts)} = Allowed(chars[s])
             /\ Len(opts) = Cardinality(Allowed(chars[s]))
    /\ Transformed =>
          \E t \in Allowed(BeforeTurn) : chars.p.form_name = t.name

\* the player, already transformed, has taken the next form
C23_Witness ==
    /\ Transformed
    /\ BeforeTurn.form_name = "SSJ"
    /\ chars.p.form_name = "SSJ2"

\* C24: in every reachable state a character whose terminated_at is set
\* has a non-empty form_stack, so check_revert never pops an empty stack;
\* the threshold is the one apply_transformation took from the current
\* form, and it is cleared by every revert of the player, by every
\* auto-revert of the upkeep and by the post-battle reset.
C24_ThresholdHasStack ==
    /\ \A s \in Sides :
         chars[s].terminated_at # NoThreshold =>
             /\ chars[s].form_stack # <<>>
             /\ \E i \in 1..Len(Transformations) :
                  /\ Transformations[i].name = chars[s].form_name
                  /\ Transformations[i].terminated_at = chars[s].terminated_at
    /\ (mode = "battle" /\ acted = "A"
           /\ Len(chars.p.form_stack) < Len(BeforeTurn.form_stack))
          => chars.p.terminated_at = NoThreshold
    /\ pc = "decide" =>
          \A s \in Sides :
              Len(chars[s].form_stack) < Len(atRound[s].form_stack)
                  => chars[s].terminated_at = NoThreshold
    /\ (mode = "battle" /\ Done /\ KnockedOut) =>
          \A s \in Sides : chars[s].terminated_at = NoThreshold

\* the player has left, by the menu, a form whose threshold was set
C24_Witness ==
    /\ mode = "battle" /\ acted = "A"
    /\ BeforeTurn.terminated_at # NoThreshold
    /\ Len(chars.p.form_stack) = Len(BeforeTurn.form_stack) - 1
    /\ chars.p.terminated_at = NoThreshold

\* from b to a the stack was left alone, or it gained one snapshot that
\* carries the form b was in, or it lost its top snapshot, whose form a is
\* in now
OneLevel(b, a) ==
    LET nb == Len(b.form_stack)
        na == Len(a.form_stack)
    IN  \/ a.form_stack = b.form_stack /\ a.form_name = b.form_name
        \/ /\ na = nb + 1
           /\ SubSeq(a.form_stack, 1, nb) = b.form_stack
           /\ a.form_stack[na].name = b.form_name
        \/ /\ na = nb - 1
           /\ a.form_stack = SubSeq(b.form_stack, 1, na)
           /\ a.form_name = b.form_stack[nb].name

\* C25: for a character that starts in form "Base" with an empty stack,
\* form_stack is empty iff form_name is "Base"; each transformation adds
\* one snapshot and each revert takes one away, so the depth is the number
\* of transformations minus the number of reverts, and the top snapshot
\* names the form that was current just before the latest transformation
\* not yet reverted.
C25_StackAndName ==
    /\ \A s \in Sides :
         /\ chars[s].form_stack = <<>> <=> chars[s].form_name = "Base"
         /\ chars[s].form_stack # <<>> => chars[s].form_stack[1].name = "Base"
         /\ \A i \in 2..Len(chars[s].form_stack) :
              chars[s].form_stack[i].name # "Base"
    /\ (mode = "battle" /\ acted = "A" /\ pc # "done") =>
           OneLevel(BeforeTurn, chars.p)
    /\ pc = "decide" => \A s \in Sides : OneLevel(atRound[s], chars[s])

\* the player has gone back from the second form to the first
C25_Witness ==
    /\ mode = "battle" /\ acted = "A"
    /\ Len(BeforeTurn.form_stack) = 2
    /\ Len(chars.p.form_stack) = 1
    /\ chars.p.form_name = "SSJ"

----------------------------------------------------------------------------
(* 12. auto_battle() until it returns                                      *)

\* the monsters of a friendly fight: power_level > 0, hp > 0, and either no
\* Kaioken or one whose cost per round is positive
Fighters ==
    {Character(1, 800, 60, 20, <<>>, <<>>, 0, 0, 7),
     Character(1, 50, 30, 20, <<"Kaioken">>, <<>>, 0, 1, 7)}
    \cup {Character(2, 1000, 60, 40, <<"Kaioken", "Cura">>, <<>>, 0, m, 7) :
            m \in 1..MaxMultCfg}

InitAuto ==
    /\ mode = "auto"
    /\ pc = "loop"
    /\ \E seed \in 1..MaxSeed :
         LET d1 == draw(_build(seed), HandSize, seed)
             d2 == draw(d1[2], HandSize, seed)
         IN  /\ p_hand = d1[1]
             /\ e_hand = d2[1]
             /\ deck = d2[2]
    /\ \E c1 \in Fighters, c2 \in Fighters : chars = [p |-> c1, e |-> c2]
    /\ p_card = <<>> /\ e_card = <<>> /\ e_choice = ""
    /\ rnd = 1
    /\ acted = "none"
    /\ result = "none"
    /\ atStart = chars
    /\ atRound = chars
    /\ atExit = chars
    /\ call = <<>>

\* the head of an iteration; rnd is only printed, and is no longer counted
\* once it has passed MaxRounds
A_Round ==
    /\ mode = "auto" /\ pc = "loop" /\ BothAlive
    /\ rnd' = IF rnd <= MaxRounds THEN rnd + 1 ELSE rnd
    /\ atRound' = chars
    /\ chars' = Upkeep(chars)
    /\ acted' = "none"
    /\ call' = <<>>
    /\ pc' = "decide"
    /\ UNCHANGED <<mode, deck, p_hand, e_hand, p_card, e_card, e_choice,
                   result, atStart, atExit>>

NextAuto ==
    \/ A_Round
    \/ A_Turn1
    \/ A_Turn2
    \/ A_End

\* a running auto_battle always takes its next step
SpecAuto == InitAuto /\ [][NextAuto]_vars /\ WF_vars(NextAuto)

OneDown ==
    \/ chars.p.hp = 0 /\ chars.e.hp > 0
    \/ chars.e.hp = 0 /\ chars.p.hp > 0

\* C26: auto_battle between two characters with power_level > 0, hp > 0 and
\* a positive boost cost (or no boost ability) always terminates: eventually
\* the loop is left with exactly one side at hp = 0.
C26_AutoBattleEnds == <>(pc = "done" /\ OneDown)

\* a fight that outlasted the round counter and was won by the side with
\* the lower power level
C26_Witness ==
    /\ pc = "done" /\ OneDown
    /\ rnd > MaxRounds
    /\ chars.p.power_level < chars.e.power_level
    /\ chars.e.hp = 0

====
